---------------------------- MODULE Spec2Model ----------------------------
(* A model of pwgen (src/src/main.rs): one run of main, from argument      *)
(* parsing to the confirmation line or a panic.                            *)
(*                                                                         *)
(* Characters are Unicode code points, a String is its UTF-8 byte          *)
(* sequence (as in Rust), the clipboard is the one OS clipboard, and the   *)
(* terminal is a grid of cells of a given width with a cursor.             *)
EXTENDS Integers, Sequences, FiniteSets

(***************************************************************************)
(* Bounds of the model (not program constants).                            *)
(***************************************************************************)
\* the numbers 0..MaxTyped are typed as length lines (plus OddLines)
MaxTyped == 101
\* lines read by the length loop in one run
MaxAttempts == 3
\* seeds of the thread-local generator
NumSeeds == 2
\* rows of the terminal below (and including) the password line
ScreenRows == 6

(***************************************************************************)
(* Program constants.                                                      *)
(***************************************************************************)
MinLength == 10
MaxLength == 100
DefaultLength == 50
VisibleHead == 5
MaskShort == 7
VisibleTail == 3
CountdownSecs == 15
PasswordLinePad == 100
TimerLinePad == 50
\* "Generated password: "
PasswordLabelLen == 20
\* "Seconds remaining: "
TimerLabelLen == 19
\* {:2}
TimerFieldWidth == 2
\* "Password has been hidden and removed from clipboard."
ConfirmLen == 52
\* the mask glyph U+25CF
MaskGlyph == 9679

LF == 10
SP == 32

(***************************************************************************)
(* Sequences helpers.                                                      *)
(***************************************************************************)
Max(a, b) == IF a >= b THEN a ELSE b

Repeat(x, n) == [i \in 1..n |-> x]

\* s[from..to) on 0-based offsets, as a Rust range slice
Slice(s, from, to) == SubSeq(s, from + 1, to)

RECURSIVE Flatten(_)
Flatten(ss) ==
    IF Len(ss) = 0 THEN <<>>
    ELSE IF Len(ss) = 1 THEN ss[1]
    ELSE LET h == Len(ss) \div 2
         IN  Flatten(SubSeq(ss, 1, h)) \o Flatten(SubSeq(ss, h + 1, Len(ss)))

(***************************************************************************)
(* UTF-8: char -> bytes (String::from_iter / str::repeat), and the char    *)
(* boundaries and char count of a byte string.                             *)
(***************************************************************************)
Utf8(c) ==
    IF c < 128 THEN <<c>>
    ELSE IF c < 2048 THEN <<192 + (c \div 64), 128 + (c % 64)>>
    ELSE IF c < 65536
         THEN <<224 + (c \div 4096), 128 + ((c \div 64) % 64), 128 + (c % 64)>>
    ELSE <<240 + (c \div 262144), 128 + ((c \div 4096) % 64),
           128 + ((c \div 64) % 64), 128 + (c % 64)>>

Collect(chars) == Flatten([i \in 1..Len(chars) |-> Utf8(chars[i])])

IsContinuation(b) == b >= 128 /\ b < 192

\* str::is_char_boundary, 0-based offset
IsCharBoundary(s, i) ==
    \/ i = 0
    \/ i = Len(s)
    \/ i < Len(s) /\ ~IsContinuation(s[i + 1])

\* str::chars().count()
CharCount(s) == Cardinality({i \in 1..Len(s) : ~IsContinuation(s[i])})

(***************************************************************************)
(* str::trim, str::to_lowercase (ASCII part), usize::from_str.             *)
(***************************************************************************)
IsWhite(c) == c \in {9, 10, 11, 12, 13, SP}

RECURSIVE TrimStart(_)
TrimStart(s) ==
    IF s # <<>> /\ IsWhite(Head(s)) THEN TrimStart(Tail(s)) ELSE s

RECURSIVE TrimEnd(_)
TrimEnd(s) ==
    IF s # <<>> /\ IsWhite(s[Len(s)]) THEN TrimEnd(SubSeq(s, 1, Len(s) - 1)) ELSE s

Trim(s) == TrimEnd(TrimStart(s))

ToLowercase(s) == [i \in 1..Len(s) |-> IF s[i] >= 65 /\ s[i] <= 90 THEN s[i] + 32 ELSE s[i]]

IsDigit(c) == c >= 48 /\ c <= 57

RECURSIVE DigitsValue(_)
DigitsValue(ds) ==
    IF ds = <<>> THEN 0
    ELSE DigitsValue(SubSeq(ds, 1, Len(ds) - 1)) * 10 + (ds[Len(ds)] - 48)

\* usize::from_str: a leading '+' is accepted, a '-' is an invalid digit, the
\* empty string and a lone sign are errors.  (The typed numbers of the model
\* stay far below usize::MAX, so the overflow error never arises.)
ParseUsize(s) ==
    LET digits == IF s # <<>> /\ s[1] = 43 THEN Tail(s) ELSE s
    IN  IF digits = <<>> \/ \E i \in 1..Len(digits) : ~IsDigit(digits[i])
        THEN [ok |-> FALSE, num |-> 0]
        ELSE [ok |-> TRUE, num |-> DigitsValue(digits)]

\* a variant of InRange without the lower limit, (..=100)
InRange_noMin(num) == num <= MaxLength

\* the match arm of line 60
InRange(num) == num >= MinLength /\ num <= MaxLength

\* line 75
AnswerIsYes(s) == ToLowercase(Trim(s)) = <<121, 101, 115>>

(***************************************************************************)
(* What the user may type.                                                 *)
(***************************************************************************)
RECURSIVE Decimal(_)
Decimal(n) == IF n < 10 THEN <<48 + n>> ELSE Decimal(n \div 10) \o <<48 + (n % 10)>>

\* "abc", an empty line, end of input, " 50 ", "+50", "-50", "050", "5 0",
\* "150", "12.5"
OddLines ==
    { <<97, 98, 99, LF>>, <<LF>>, <<>>, <<SP, 53, 48, SP, LF>>, <<43, 53, 48, LF>>,
      <<45, 53, 48, LF>>, <<48, 53, 48, LF>>, <<53, SP, 48, LF>>,
      <<49, 53, 48, LF>>, <<49, 50, 46, 53, LF>> }

LengthLines == {Decimal(n) \o <<LF>> : n \in 0..MaxTyped} \cup OddLines

\* "yes", "YES", " Yes ", "no", "y", an empty line, end of input
AnswerLines ==
    { <<121, 101, 115, LF>>, <<89, 69, 83, LF>>, <<SP, 89, 101, 115, SP, LF>>,
      <<110, 111, LF>>, <<121, LF>>, <<LF>>, <<>> }

(***************************************************************************)
(* The random generator: thread_rng() is one generator per thread, seeded  *)
(* by the OS; modelled as a linear congruential generator whose seed is    *)
(* chosen by the environment.                                              *)
(***************************************************************************)
Seeds == 1..NumSeeds

NextRng(r) == (r * 75 + 74) % 65537

\* Uniform::new(low, high).sample(rng): a value in low..high-1
UniformSample(low, high, r) == low + (r % (high - low))

\* rng.sample(Alphanumeric): one of A-Z a-z 0-9
Alphanumeric(r) ==
    LET k == r % 62
    IN  IF k < 26 THEN 65 + k ELSE IF k < 52 THEN 97 + (k - 26) ELSE 48 + (k - 52)

\* line 21
symbols ==
    <<33, 64, 35, 36, 37, 94, 38, 42, 40, 41, 45, 61, 95, 43, 91, 93, 123, 125,
      124, 59, 58, 39, 44, 46, 60, 62, 63, 47>>

\* a variant of dist_high that takes Uniform::new(0, 2) in both branches
dist_high_always(include_symbols) == 2

\* lines 23-27
dist_high(include_symbols) == IF include_symbols THEN 2 ELSE 1

\* the closure of lines 30-37, on the values r1, r2 of its two draws
gen_char(include_symbols, r1, r2) ==
    IF UniformSample(0, dist_high(include_symbols), r1) = 0
    THEN Alphanumeric(r2)
    ELSE symbols[UniformSample(0, Len(symbols), r2) + 1]

\* the next n states of the generator that is in state r
RECURSIVE RngStream(_, _)
RngStream(r, n) ==
    IF n = 0 THEN <<>>
    ELSE IF n = 1 THEN <<NextRng(r)>>
    ELSE LET left == RngStream(r, n \div 2)
         IN  left \o RngStream(left[Len(left)], n - (n \div 2))

\* the generator after the draws of stream st, from state r
RngAfter(r, st) == IF st = <<>> THEN r ELSE st[Len(st)]

\* a variant of generate_password that iterates over 1..length
generate_password_short(length, include_symbols, r) ==
    LET st == RngStream(r, 2 * length)
    IN  [ s   |-> Collect([i \in 1..(length - 1) |->
                             gen_char(include_symbols, st[2 * i - 1], st[2 * i])]),
          rng |-> RngAfter(r, st) ]

\* lines 18-39: the String collected from `length` chars, and the generator after
generate_password(length, include_symbols, r) ==
    LET st == RngStream(r, 2 * length)
    IN  [ s   |-> Collect([i \in 1..length |->
                             gen_char(include_symbols, st[2 * i - 1], st[2 * i])]),
          rng |-> RngAfter(r, st) ]

\* a variant of destroy_password that returns the buffer's capacity, here the
\* length rounded up to a multiple of 8
destroy_password_capacity(password, r) ==
    LET bytes == password
        st == RngStream(r, Len(bytes))
        filled == [i \in 1..Len(bytes) |-> st[i] % 256]
    IN  [ bytes |-> filled, len |-> ((Len(filled) + 7) \div 8) * 8,
          rng |-> RngAfter(r, st) ]

\* lines 41-46: the buffer after rng.fill, and the count returned
destroy_password(password, r) ==
    LET bytes == password
        st == RngStream(r, Len(bytes))
        filled == [i \in 1..Len(bytes) |-> st[i] % 256]
    IN  [ bytes |-> filled, len |-> Len(filled), rng |-> RngAfter(r, st) ]


\* a variant of after_invalid without length_str.clear()
after_invalid_kept(buf) == buf

\* line 63: the buffer after a rejected line
after_invalid(buf) == <<>>

\* a variant of CountdownRange over (1..15).rev()
CountdownRange_exclusive == [k \in 1..(CountdownSecs - 1) |-> CountdownSecs - k]

\* the iterator of line 102
CountdownRange == [k \in 1..CountdownSecs |-> CountdownSecs + 1 - k]

(***************************************************************************)
(* The terminal: `width` columns, ScreenRows rows from the password line   *)
(* down, row-major cells, a cursor that wraps to the next row at the right *)
(* margin.  A cell holds the kind of text last written to it.              *)
(***************************************************************************)
Widths == {80, 160}

BlankTerm(w) == [grid |-> [p \in 0..(ScreenRows * w - 1) |-> "blank"], cur |-> 0]

Cells(kind, n) == Repeat(kind, n)

\* write the cells at the cursor
Put(t, cells) ==
    [ grid |-> [p \in DOMAIN t.grid |->
                  IF p >= t.cur /\ p < t.cur + Len(cells)
                  THEN cells[p - t.cur + 1] ELSE t.grid[p]],
      cur  |-> t.cur + Len(cells) ]

\* "\r"
CarriageReturn(t, w) == [t EXCEPT !.cur = t.cur - (t.cur % w)]

\* "\n" of println!
NewLine(t, w) == [t EXCEPT !.cur = t.cur - (t.cur % w) + w]

\* "\x1b[1A"
CursorUp(t, w) == [t EXCEPT !.cur = IF t.cur >= w THEN t.cur - w ELSE t.cur]

(***************************************************************************)
(* State.                                                                  *)
(***************************************************************************)
VARIABLES
    pc,              \* the position in main
    panicLine,       \* the line of the panic that ended the run, 0 if none
    ask,             \* args.ask
    length_str,      \* the buffer read_line appends to
    line,            \* the line read_line returned last
    attempts,        \* lines read by the length loop
    length,
    include_symbols,
    rng,             \* the state of the thread-local generator
    password,        \* the String generate_password returned
    heap,            \* the bytes now in that String's buffer
    destroyed,       \* destroy_password has overwritten the buffer
    shown,           \* the text printed after "Generated password: "
    clipboard,       \* the text on the OS clipboard
    clipboardErr,    \* the clipboard call that failed, "none" if none
    setCount,        \* successful writes of the clipboard
    clearCount,      \* successful clears of the clipboard
    len,             \* what destroy_password returned
    step,            \* iterations of the countdown loop done
    ticks,           \* the values the countdown has shown
    cleaned,         \* the cleanup sequence has been printed
    confirmed,       \* the confirmation line has been printed
    width,           \* the width of the terminal
    term             \* the terminal

vars == <<pc, panicLine, ask, length_str, line, attempts, length, include_symbols,
          rng, password, heap, destroyed, shown, clipboard, clipboardErr, setCount,
          clearCount, len, step, ticks, cleaned, confirmed, width, term>>

inputVars == <<ask, length_str, line, attempts, length, include_symbols>>
secretVars == <<rng, password, heap, destroyed, len>>
clipVars == <<clipboard, clipboardErr, setCount, clearCount>>
outVars == <<shown, step, ticks, cleaned, confirmed, term>>

Init ==
    /\ pc = "start"
    /\ panicLine = 0
    /\ ask = FALSE
    /\ length_str = <<>>
    /\ line = <<>>
    /\ attempts = 0
    /\ length = 0
    /\ include_symbols = FALSE
    /\ rng \in Seeds
    /\ password = <<>>
    /\ heap = <<>>
    /\ destroyed = FALSE
    /\ shown = <<>>
    /\ clipboard = <<>>
    /\ clipboardErr = "none"
    /\ setCount = 0
    /\ clearCount = 0
    /\ len = 0
    /\ step = 0
    /\ ticks = <<>>
    /\ cleaned = FALSE
    /\ confirmed = FALSE
    /\ width \in Widths
    /\ term = BlankTerm(width)

\* a panic on the main thread ends the process
Panic(n) == pc' = "panicked" /\ panicLine' = n

(***************************************************************************)
(* Input resolution, lines 49-80.                                          *)
(***************************************************************************)
\* line 49, line 51
ParseArgs ==
    /\ pc = "start"
    /\ \E a \in BOOLEAN :
          /\ ask' = a
          /\ pc' = IF a THEN "ask_length" ELSE "defaults"
    /\ UNCHANGED <<panicLine, length_str, line, attempts, length, include_symbols,
                   width>>
    /\ UNCHANGED <<secretVars, clipVars, outVars>>

\* line 79
Defaults ==
    /\ pc = "defaults"
    /\ length' = DefaultLength
    /\ include_symbols' = TRUE
    /\ pc' = "generate"
    /\ UNCHANGED <<panicLine, ask, length_str, line, attempts, width>>
    /\ UNCHANGED <<secretVars, clipVars, outVars>>

\* one iteration of the loop of lines 54-68
ReadLength ==
    /\ pc = "ask_length"
    /\ attempts < MaxAttempts
    /\ \E ln \in LengthLines :
          LET buf == length_str \o ln
              r == ParseUsize(Trim(buf))
          IN  /\ line' = ln
              /\ attempts' = attempts + 1
              /\ IF r.ok /\ InRange(r.num)
                 THEN /\ length' = r.num
                      /\ length_str' = buf
                      /\ pc' = "ask_symbols"
                 ELSE /\ length_str' = after_invalid(buf)
                      /\ UNCHANGED <<length, pc>>
    /\ UNCHANGED <<panicLine, ask, include_symbols, width>>
    /\ UNCHANGED <<secretVars, clipVars, outVars>>

\* lines 70-77; the block's strings go out of scope at line 78
ReadSymbols ==
    /\ pc = "ask_symbols"
    /\ \E ln \in AnswerLines : include_symbols' = AnswerIsYes(ln)
    /\ length_str' = <<>>
    /\ line' = <<>>
    /\ attempts' = 0
    /\ pc' = "generate"
    /\ UNCHANGED <<panicLine, ask, length, width>>
    /\ UNCHANGED <<secretVars, clipVars, outVars>>

(***************************************************************************)
(* Generation and display, lines 83-90.                                    *)
(***************************************************************************)
\* line 83
Generate ==
    /\ pc = "generate"
    /\ LET g == generate_password(length, include_symbols, rng)
       IN  /\ password' = g.s
           /\ heap' = g.s
           /\ rng' = g.rng
    /\ pc' = "display"
    /\ UNCHANGED <<panicLine, destroyed, len, width>>
    /\ UNCHANGED <<inputVars, clipVars, outVars>>

\* the slices and the subtraction of lines 87-89 are in bounds
DisplayInBounds ==
    /\ length >= MaskShort
    /\ VisibleHead <= Len(password)
    /\ IsCharBoundary(password, VisibleHead)
    /\ length - VisibleTail <= Len(password)
    /\ IsCharBoundary(password, length - VisibleTail)

\* lines 85-90; an out-of-range slice panics, and so does length - 7 below
\* zero (an overflow panic, or a wrapped count no allocation can hold)
Display ==
    /\ pc = "display"
    /\ IF DisplayInBounds
       THEN LET text == Slice(password, 0, VisibleHead)
                        \o Collect(Repeat(MaskGlyph, length - MaskShort))
                        \o Slice(password, length - VisibleTail, Len(password))
            IN  /\ shown' = text
                /\ term' = NewLine(Put(term, Cells("password",
                                        PasswordLabelLen + CharCount(text))), width)
                /\ pc' = "clipboard_new"
                /\ UNCHANGED panicLine
       ELSE /\ Panic(85)
            /\ UNCHANGED <<shown, term>>
    /\ UNCHANGED <<step, ticks, cleaned, confirmed, width>>
    /\ UNCHANGED <<inputVars, secretVars, clipVars>>

(***************************************************************************)
(* Clipboard, secure-erase, countdown, lines 92-109.                       *)
(***************************************************************************)
\* line 93
ClipboardNew ==
    /\ pc = "clipboard_new"
    /\ \E ok \in BOOLEAN :
          IF ok
          THEN pc' = "set_text" /\ UNCHANGED <<panicLine, clipboardErr>>
          ELSE Panic(93) /\ clipboardErr' = "new"
    /\ UNCHANGED <<clipboard, setCount, clearCount, width>>
    /\ UNCHANGED <<inputVars, secretVars, outVars>>

\* line 94: a clone of the password goes to the clipboard
SetText ==
    /\ pc = "set_text"
    /\ \E ok \in BOOLEAN :
          IF ok
          THEN /\ clipboard' = password
               /\ setCount' = setCount + 1
               /\ pc' = "destroy"
               /\ UNCHANGED <<panicLine, clipboardErr>>
          ELSE /\ Panic(94)
               /\ clipboardErr' = "set_text"
               /\ UNCHANGED <<clipboard, setCount>>
    /\ UNCHANGED <<clearCount, width>>
    /\ UNCHANGED <<inputVars, secretVars, outVars>>

\* line 96
Destroy ==
    /\ pc = "destroy"
    /\ LET d == destroy_password(heap, rng)
       IN  /\ heap' = d.bytes
           /\ len' = d.len
           /\ rng' = d.rng
    /\ destroyed' = TRUE
    /\ pc' = "assert_eq"
    /\ UNCHANGED <<panicLine, password, width>>
    /\ UNCHANGED <<inputVars, clipVars, outVars>>

\* line 99, and the entry of the loop of line 102
AssertEq ==
    /\ pc = "assert_eq"
    /\ IF length = len
       THEN /\ pc' = IF Len(CountdownRange) = 0 THEN "clear" ELSE "countdown"
            /\ UNCHANGED panicLine
       ELSE Panic(99)
    /\ UNCHANGED width
    /\ UNCHANGED <<inputVars, secretVars, clipVars, outVars>>

\* one iteration of the loop of lines 102-106
CountdownStep ==
    /\ pc = "countdown"
    /\ step < Len(CountdownRange)
    /\ LET i == CountdownRange[step + 1]
       IN  /\ term' = Put(CarriageReturn(term, width),
                          Cells("timer", TimerLabelLen
                                         + Max(TimerFieldWidth, Len(Decimal(i)))))
           /\ ticks' = Append(ticks, i)
    /\ step' = step + 1
    /\ pc' = IF step + 1 = Len(CountdownRange) THEN "clear" ELSE "countdown"
    /\ UNCHANGED <<panicLine, shown, cleaned, confirmed, width>>
    /\ UNCHANGED <<inputVars, secretVars, clipVars>>

\* a variant of ClipboardClear that drops the result of clear()
ClipboardClear_ignored ==
    /\ pc = "clear"
    /\ \E ok \in BOOLEAN :
          IF ok
          THEN /\ clipboard' = <<>>
               /\ clearCount' = clearCount + 1
               /\ UNCHANGED clipboardErr
          ELSE /\ clipboardErr' = "clear"
               /\ UNCHANGED <<clipboard, clearCount>>
    /\ pc' = "cleanup"
    /\ UNCHANGED <<panicLine, setCount, width>>
    /\ UNCHANGED <<inputVars, secretVars, outVars>>

\* line 109
ClipboardClear ==
    /\ pc = "clear"
    /\ \E ok \in BOOLEAN :
          IF ok
          THEN /\ clipboard' = <<>>
               /\ clearCount' = clearCount + 1
               /\ pc' = "cleanup"
               /\ UNCHANGED <<panicLine, clipboardErr>>
          ELSE /\ Panic(109)
               /\ clipboardErr' = "clear"
               /\ UNCHANGED <<clipboard, clearCount>>
    /\ UNCHANGED <<setCount, width>>
    /\ UNCHANGED <<inputVars, secretVars, outVars>>

(***************************************************************************)
(* Terminal cleanup and confirmation, lines 111-119.                       *)
(***************************************************************************)
\* lines 112-117
Cleanup ==
    /\ pc = "cleanup"
    /\ LET up == CursorUp(term, width)
           l1 == Put(CarriageReturn(up, width), Cells("blank", len + PasswordLinePad))
           l2 == Put(CarriageReturn(l1, width), Cells("blank", TimerLinePad))
       IN  term' = CarriageReturn(l2, width)
    /\ cleaned' = TRUE
    /\ pc' = "confirm"
    /\ UNCHANGED <<panicLine, shown, step, ticks, confirmed, width>>
    /\ UNCHANGED <<inputVars, secretVars, clipVars>>

\* line 119
Confirm ==
    /\ pc = "confirm"
    /\ term' = NewLine(Put(term, Cells("confirm", ConfirmLen)), width)
    /\ confirmed' = TRUE
    /\ pc' = "done"
    /\ UNCHANGED <<panicLine, shown, step, ticks, cleaned, width>>
    /\ UNCHANGED <<inputVars, secretVars, clipVars>>

Next ==
    \/ ParseArgs
    \/ Defaults
    \/ ReadLength
    \/ ReadSymbols
    \/ Generate
    \/ Display
    \/ ClipboardNew
    \/ SetText
    \/ Destroy
    \/ AssertEq
    \/ CountdownStep
    \/ ClipboardClear
    \/ Cleanup
    \/ Confirm

Spec == Init /\ [][Next]_vars

(***************************************************************************)
(* Properties.                                                             *)
(***************************************************************************)
\* generate_password has returned
Generated ==
    pc \notin {"start", "defaults", "ask_length", "ask_symbols", "generate"}

IsAlnum(c) ==
    \/ c >= 48 /\ c <= 57
    \/ c >= 65 /\ c <= 90
    \/ c >= 97 /\ c <= 122

\* C1: for every requested length in [10,100] and either value of
\* include_symbols, the generated password has exactly `length` characters,
\* and exactly `length` bytes.
C1_GeneratedLength ==
    Generated => /\ length \in MinLength..MaxLength
                 /\ CharCount(password) = length
                 /\ Len(password) = length

C1_Witness ==
    /\ Generated
    /\ length = MaxLength
    /\ include_symbols
    /\ \E i \in 1..Len(password) : ~IsAlnum(password[i])
    /\ \E i \in 1..Len(password) : IsAlnum(password[i])

\* C2 (as claimed): the masked display shows the first 5 characters of the
\* password, then length-7 mask glyphs, then its last 3 characters, and the
\* displayed characters number `length` in all.
C2_DisplayedLengthIsLength ==
    shown # <<>> =>
        /\ shown = Slice(password, 0, VisibleHead)
                   \o Collect(Repeat(MaskGlyph, length - MaskShort))
                   \o Slice(password, Len(password) - VisibleTail, Len(password))
        /\ CharCount(shown) = length

\* C3: if include_symbols is false, every character of the generated
\* password is alphanumeric.
C3_NoSymbols ==
    (Generated /\ ~include_symbols) =>
        \A i \in 1..Len(password) : IsAlnum(password[i])

C3_Witness ==
    /\ Generated
    /\ ~include_symbols
    /\ length = MaxLength
    /\ Len(password) = MaxLength

\* 15, 14, ..., 1
FullCountdown == [k \in 1..CountdownSecs |-> CountdownSecs + 1 - k]

\* C4: the clipboard is written once and cleared once per successful run:
\* written before the first countdown step, holding the password during each
\* of the 15 steps (15 down to 1), cleared only after the last of them, and
\* never cleared before it is written.
C4_ClipboardOrder ==
    /\ setCount <= 1
    /\ clearCount <= 1
    /\ pc = "done" => setCount = 1 /\ clearCount = 1 /\ ticks = FullCountdown
    /\ clearCount = 1 => setCount = 1 /\ ticks = FullCountdown /\ clipboard = <<>>
    /\ ticks # <<>> => /\ setCount = 1
                       /\ ticks = SubSeq(FullCountdown, 1, Len(ticks))
    /\ (setCount = 1 /\ clearCount = 0) => clipboard = password /\ password # <<>>

C4_Witness ==
    /\ pc = "done"
    /\ setCount = 1
    /\ clearCount = 1
    /\ ticks = FullCountdown

\* C5 (as claimed): on every run that generated a password, the password's
\* bytes have been overwritten by the time the process ends, also when it
\* ends because clipboard access failed.
C5_DestroyedBeforeExit ==
    (Generated /\ pc \in {"done", "panicked"}) => destroyed

\* C6 (as claimed): when the confirmation line has been emitted, the cleanup
\* has blanked the password line and the countdown line: no cell of the
\* terminal shows text of either.
C6_LinesErased ==
    pc = "done" =>
        /\ cleaned
        /\ \A p \in DOMAIN term.grid : term.grid[p] \notin {"password", "timer"}

\* the line holds the integer n: blanks, an optional '+', zeros, n in decimal
RECURSIVE StripZeros(_)
StripZeros(s) ==
    IF Len(s) > 1 /\ s[1] = 48 THEN StripZeros(Tail(s)) ELSE s

HoldsInteger(ln, n) ==
    LET body == Trim(ln)
        unsigned == IF body # <<>> /\ body[1] = 43 THEN Tail(body) ELSE body
    IN  /\ unsigned # <<>>
        /\ \A i \in 1..Len(unsigned) : IsDigit(unsigned[i])
        /\ StripZeros(unsigned) = Decimal(n)

\* C7: the length loop rejects every line that holds no integer of [10,100]
\* and prompts again, whatever was entered before; it is left only on a line
\* holding an integer of [10,100], and the length is the value of that line.
C7_Prompting ==
    /\ (pc = "ask_length" /\ attempts > 0) =>
           /\ \A n \in MinLength..MaxLength : ~HoldsInteger(line, n)
           /\ length_str = <<>>
    /\ pc = "ask_symbols" =>
           /\ length \in MinLength..MaxLength
           /\ HoldsInteger(line, length)

C7_Witness ==
    /\ pc = "ask_symbols"
    /\ attempts >= 3
    /\ length = MaxLength

\* C8: the count destroy_password returns is the password's length, the
\* overwrite leaves the buffer's size as it was, and the assertion of line 99
\* never fails.
C8_EraseKeepsLength ==
    /\ destroyed => len = length /\ Len(heap) = Len(password)
    /\ panicLine # 99

C8_Witness ==
    /\ pc = "countdown"
    /\ destroyed
    /\ len = MinLength
    /\ heap # password

\* C9: a clipboard failure ends the process at once: after a failure to open
\* or to write the clipboard no countdown step has run and neither the
\* cleanup nor the confirmation has been printed; after a failure to clear
\* it the confirmation is never printed.
C9_ClipboardFailureFatal ==
    /\ clipboardErr # "none" => pc = "panicked" /\ ~confirmed /\ ~cleaned
    /\ clipboardErr \in {"new", "set_text"} =>
           /\ ticks = <<>>
           /\ \A p \in DOMAIN term.grid : term.grid[p] \notin {"timer", "confirm"}

C9_Witness ==
    /\ clipboardErr = "clear"
    /\ pc = "panicked"
    /\ panicLine = 109
    /\ ticks = FullCountdown

\* C10: at the display step, with or without --ask, the length is in
\* [10,100], length-7 and length-3 do not underflow, the slices [0..5] and
\* [length-3..] lie within the password, and the display does not panic.
C10_DisplayInBounds ==
    /\ pc = "display" =>
           /\ length \in MinLength..MaxLength
           /\ length - MaskShort >= 0
           /\ length - VisibleTail >= 0
           /\ VisibleHead <= Len(password)
           /\ length - VisibleTail <= Len(password)
    /\ panicLine # 85
    /\ (~ask /\ Generated) => length = DefaultLength /\ include_symbols

C10_Witness ==
    /\ pc = "display"
    /\ ask
    /\ length = MinLength

=============================================================================
